---- MODULE Spec2Model ----
(***************************************************************************)
(* railtail: a local listener that forwards TCP connections (and HTTP      *)
(* requests) to a target on the tailnet.  This module models               *)
(*   - the TCP tunnel: the accept loop of main() and the forwarder fwdTCP  *)
(*     (Spec, FairSpec);                                                   *)
(*   - start-up: LoadConfig and the dispatch of main() (BootSpec);         *)
(*   - the HTTP side: the handlers and fwdHttp (HttpSpec);                 *)
(*   - the forwarding strategies together (ForwardSpec).                   *)
(*                                                                         *)
(* The repository holds two fwdTCP bodies (src/tcp.go and                  *)
(* src/unnamed/part_000) and accept loops that do / do not set the         *)
(* five-minute deadline (src/main.go:182-198, src/unnamed/part_003:153-161 *)
(* versus src/main.go:317-321).  Which of them a build contains is fixed   *)
(* at start-up (tcpImpl, mainImpl) and never changes.                      *)
(***************************************************************************)
EXTENDS Naturals, Integers, Sequences, FiniteSets, TLC

\* ------------------------------------------------------------------ bounds
\* A run follows either one connection in depth, with up to MaxEvents events
\* caused by the outside world (bytes sent, write sides shut down and
\* connections reset by the peers, failed Accept() calls), or MaxConns
\* concurrent connections with up to MaxLoopEvents such events.
MaxConns == 2
MaxEvents == 3
MaxLoopEvents == 1
\* HTTP requests in flight at once.
MaxReqs == 2

Conns == 1..MaxConns
Dirs == {"l2r", "r2l"}
Sides == {"lstConn", "tsConn"}
Reqs == 1..MaxReqs

VARIABLES
    tcpImpl,     \* "tcp.go" | "part_000": the fwdTCP body of the build
    mainImpl,    \* "deadline" | "nodeadline": the accept loop of the build
    clients,     \* clients that connect in this run
    quota,       \* events the outside world may cause in this run
    canCloseWrite,\* the sides whose connection type has a CloseWrite method
    listener,    \* "none" | "open" | "closed", or "tls": open, and its
                 \* connections are TLS connections
    mainPc,      \* position of main(): "accept" | "exited"
    acceptErrs,  \* Accept() calls that returned an error
    events,      \* events the outside world has caused so far
    sess,        \* [Conns -> phase of the connection / its forwarder goroutine]
    failedBefore,\* [Conns -> Accept() errors before the connection was accepted]
    timedOut,    \* [Conns -> time has reached the deadline main() armed]
    conn,        \* [Conns -> [Sides -> connection object]]
    task,        \* [Conns -> [Dirs -> copy goroutine]]
    wire,        \* [Conns -> [Dirs -> bytes of that direction]]
    dials,       \* [Conns -> calls of ts.Dial made for the session]
    ctxDone,     \* [Conns -> the context of fwdTCP has been cancelled]
    gerr,        \* [Conns -> first error recorded by the errgroup]
    gctxDone,    \* [Conns -> the errgroup's context has been cancelled]
    ret,         \* [Conns -> value returned by fwdTCP]
    cfgImpl,     \* "config.go" | "part_005" | "internal/config": LoadConfig of the build
    httpImpl,    \* "http.go" | "part_001" | "part_002": the fwdHttp body of the build
    env,         \* the settings the process was started with
    cfg,         \* what LoadConfig returned
    ran,         \* the forwarding strategies main() has run, in order
    startImpl,   \* "if" | "switch": main() of the build sets up its servers in
                 \* an if/else chain or in the switch of part_003:16-165
    transport,   \* the outbound http.Transport: its TLS policy, the writes to it
    server,      \* the timeouts of the http.Server main() serves with
    requests,    \* HTTP requests that arrive in this run
    rq,          \* [Reqs -> an HTTP request and the call of fwdHttp for it]
    proxyError   \* [Reqs -> the variable proxyError of a call of fwdHttp]

vars == <<tcpImpl, mainImpl, clients, quota, canCloseWrite, listener, mainPc, acceptErrs,
          events, sess, failedBefore, timedOut, conn, task, wire, dials,
          ctxDone, gerr, gctxDone, ret, cfgImpl, httpImpl, env, cfg, ran,
          startImpl, transport, server, requests, rq, proxyError>>

\* What the TCP tunnel never touches: the configuration and the HTTP side.
bootVars == <<cfgImpl, env, cfg, ran, startImpl, transport, server>>
httpVars == <<httpImpl, requests, rq, proxyError>>
\* The state of the TCP tunnel.
tcpVars == <<tcpImpl, clients, quota, canCloseWrite, acceptErrs, events, sess,
             failedBefore, timedOut, conn, task, wire, dials, ctxDone, gerr,
             gctxDone, ret>>

fixedVars == <<tcpImpl, mainImpl, clients, quota, canCloseWrite>>
loopVars == <<listener, mainPc, acceptErrs>>
histVars == <<failedBefore, timedOut>>

\* ----------------------------------------------------------------- helpers
\* io.Copy(dst, src): the source and the destination of each copy goroutine.
SrcOf(d) == IF d = "l2r" THEN "lstConn" ELSE "tsConn"
DstOf(d) == IF d = "l2r" THEN "tsConn" ELSE "lstConn"

\* The i-th byte the source of direction d of session c sends; all distinct.
Byte(c, d, i) == 100 * c + (IF d = "l2r" THEN 0 ELSE 10) + i

IsPrefix(s, t) == Len(s) <= Len(t) /\ SubSeq(t, 1, Len(s)) = s

NoConn == [state |-> "none", dl |-> "none", wclosed |-> FALSE, rst |-> FALSE]
IdleTask == [pc |-> "idle", buf |-> <<>>, err |-> "nil"]
EmptyWire == [sent |-> <<>>, inflight |-> <<>>, fin |-> FALSE, recv |-> <<>>]

\* The connection types a run is made with: the accepted connection and
\* the dialled one are TCP connections, with a CloseWrite method, or both
\* are net.Conn values without it.  tcp.go never looks for the method.
\* Runs with several clients are made with TCP connections.
StreamTypes ==
    IF tcpImpl = "tcp.go" THEN {Sides}
    ELSE {Sides, {}}

\* A deadline that has passed: the one main() armed and time reached, or
\* one set to time.Now() by a copy goroutine's deferred function.
Expired(cn) == cn.dl \in {"timedout", "nudged"}

\* A deferred Close() that was left out: the connection stays as it is.
Closed_Leaked(cn) == cn

\* The connection object after a deferred Close().
Closed(cn) == [cn EXCEPT !.state = "closed"]

Running(c) == sess[c] \in {"spawned", "dial", "copy"}

\* The outside world may still cause an event.
MayHappen == events < quota

\* ------------------------------------------------------- strings and URLs
\* A string is a sequence of one-character strings.
Letters == {"a", "h", "p", "s", "t", "x", "H", "P", "T"}
Digits == {"0", "1", "8"}

SetMin(S) == CHOOSE i \in S : \A j \in S : i <= j
SetMax(S) == CHOOSE i \in S : \A j \in S : i >= j

\* strings.Index(s, sep), counting from 1; 0 when sep does not occur.
Index(s, sep) ==
    LET I == {i \in 1..Len(s) : i + Len(sep) - 1 <= Len(s)
                                /\ SubSeq(s, i, i + Len(sep) - 1) = sep}
    IN IF I = {} THEN 0 ELSE SetMin(I)

\* strings.LastIndex(s, ch) for a one-character ch; 0 when it does not occur.
LastIndex(s, ch) ==
    LET I == {i \in 1..Len(s) : s[i] = ch}
    IN IF I = {} THEN 0 ELSE SetMax(I)

\* strings.HasPrefix(s, p)
HasPrefix(s, p) == Len(p) <= Len(s) /\ SubSeq(s, 1, Len(p)) = p

\* The tail of s from position i on.
From(s, i) == SubSeq(s, i, Len(s))

\* strings.ToLower(s)
ToLower(s) ==
    [i \in 1..Len(s) |->
        CASE s[i] = "H" -> "h"
          [] s[i] = "T" -> "t"
          [] s[i] = "P" -> "p"
          [] OTHER -> s[i]]

\* strings.SplitN(s, "://", 2): one part, or the parts before and after the
\* first "://".
SplitN(s) ==
    LET i == Index(s, <<":", "/", "/">>)
    IN IF i = 0 THEN <<s>> ELSE <<SubSeq(s, 1, i - 1), From(s, i + 3)>>

\* net.SplitHostPort(addr) returns an error: no colon ("missing port in
\* address") or a colon in the host part ("too many colons in address").
\* Addresses in brackets are not among the inputs.
SplitHostPortFails(addr) ==
    LET i == LastIndex(addr, ":")
    IN i = 0 \/ LastIndex(SubSeq(addr, 1, i - 1), ":") # 0

\* net/url getScheme: the scheme is the run of letters (digits, too, after
\* the first character) before the first colon; there is none when another
\* character comes first, and a colon in front is an error.
GetScheme(s) ==
    LET K == {i \in 1..Len(s) : ~(s[i] \in Letters \/ (s[i] \in Digits \cup {"."} /\ i > 1))}
    IN IF K = {} THEN [err |-> FALSE, scheme |-> <<>>, rest |-> s]
       ELSE LET k == SetMin(K) IN
            IF s[k] # ":" THEN [err |-> FALSE, scheme |-> <<>>, rest |-> s]
            ELSE IF k = 1 THEN [err |-> TRUE, scheme |-> <<>>, rest |-> s]
            ELSE [err |-> FALSE, scheme |-> SubSeq(s, 1, k - 1), rest |-> From(s, k + 1)]

\* net/url validOptionalPort: "" or a colon followed by digits only.
ValidOptionalPort(port) ==
    port = <<>> \/ (port[1] = ":" /\ \A i \in 2..Len(port) : port[i] \in Digits)

\* net/url parseHost returns an error: the text from the last colon on is
\* not a valid optional port, or the host holds a character that may not
\* stand in a host name.
ParseHostFails(host) ==
    \/ LET i == LastIndex(host, ":")
       IN i # 0 /\ ~ValidOptionalPort(From(host, i))
    \/ \E i \in 1..Len(host) : host[i] \in {" ", "?", "/"}

NilURL == [err |-> TRUE, Scheme |-> <<>>, Opaque |-> <<>>, Host |-> <<>>,
           Path |-> <<>>, RawQuery |-> <<>>, ForceQuery |-> FALSE]

\* url.Parse(s), as net/url parses it: scheme, query, then either an opaque
\* rest, or "//" authority and path.  Fragments, user information, escapes
\* and bracketed hosts are not among the inputs.
Parse(s) ==
    LET g == GetScheme(s)
        scheme == ToLower(g.scheme)
        q == Index(g.rest, <<"?">>)
        force == q # 0 /\ q = Len(g.rest)
        rest == IF q = 0 THEN g.rest ELSE SubSeq(g.rest, 1, q - 1)
        query == IF q = 0 THEN <<>> ELSE From(g.rest, q + 1)
        slash == Index(rest, <<"/">>)
        hasAuth == (scheme # <<>> \/ ~HasPrefix(rest, <<"/", "/", "/">>))
                   /\ HasPrefix(rest, <<"/", "/">>)
        afterAuth == From(rest, 3)
        cut == Index(afterAuth, <<"/">>)
        authority == IF cut = 0 THEN afterAuth ELSE SubSeq(afterAuth, 1, cut - 1)
        path == IF cut = 0 THEN <<>> ELSE From(afterAuth, cut)
        firstSeg == IF slash = 0 THEN rest ELSE SubSeq(rest, 1, slash - 1)
    IN IF g.err THEN NilURL
       ELSE IF ~HasPrefix(rest, <<"/">>) /\ scheme # <<>>
       THEN [err |-> FALSE, Scheme |-> scheme, Opaque |-> rest, Host |-> <<>>,
             Path |-> <<>>, RawQuery |-> query, ForceQuery |-> force]
       ELSE IF ~HasPrefix(rest, <<"/">>) /\ LastIndex(firstSeg, ":") # 0
       THEN NilURL
       ELSE IF hasAuth
       THEN (IF ParseHostFails(authority) THEN NilURL
             ELSE [err |-> FALSE, Scheme |-> scheme, Opaque |-> <<>>,
                   Host |-> authority, Path |-> path, RawQuery |-> query,
                   ForceQuery |-> force])
       ELSE [err |-> FALSE, Scheme |-> scheme, Opaque |-> <<>>, Host |-> <<>>,
             Path |-> rest, RawQuery |-> query, ForceQuery |-> force]

\* (*URL).Port(): the digits after the last colon of the host, "" if none.
Port(u) ==
    LET i == LastIndex(u.Host, ":")
    IN IF i = 0 THEN <<>> ELSE From(u.Host, i + 1)

\* (*URL).RequestURI(): the opaque part or else the path ("/" if empty),
\* then "?" and the query if there is one.
RequestURI(u) ==
    LET result == IF u.Opaque # <<>> THEN u.Opaque
                  ELSE IF u.Path = <<>> THEN <<"/">> ELSE u.Path
    IN IF u.ForceQuery \/ u.RawQuery # <<>>
       THEN result \o <<"?">> \o u.RawQuery ELSE result

\* (*URL).String()
String(u) ==
    (IF u.Scheme # <<>> THEN u.Scheme \o <<":">> ELSE <<>>)
    \o (IF u.Opaque # <<>> THEN u.Opaque
        ELSE (IF u.Scheme # <<>> \/ u.Host # <<>>
              THEN (IF u.Host # <<>> \/ u.Path # <<>> THEN <<"/", "/">> ELSE <<>>) \o u.Host
              ELSE <<>>) \o u.Path)
    \o (IF u.ForceQuery \/ u.RawQuery # <<>> THEN <<"?">> \o u.RawQuery ELSE <<>>)

\* ---------------------------------------------------------- configuration
HTTP == <<"h", "t", "t", "p">>
HTTPS == <<"h", "t", "t", "p", "s">>
SchemeSep == <<":", "/", "/">>

\* The target addresses and listen ports a process may be started with.
TargetAddrs ==
    { <<>>,
      <<"a", ":", "8">>,
      <<"a">>,
      HTTP \o SchemeSep \o <<"a", ":", "8">>,
      HTTPS \o SchemeSep \o <<"a", ":", "8">>,
      HTTP \o SchemeSep \o <<"a">>,
      <<"H", "T", "T", "P">> \o SchemeSep \o <<"a", ":", "8">> }
ListenPorts == { <<"8">>, <<"0">>, <<"x">>, <<>> }

\* The text of a boolean setting: "" when not set, "t" for true, "f" for
\* false.
BoolTexts == {<<>>, <<"t">>, <<"f">>}

\* A command-line flag: <<>> when not given, <<v>> when given with value v.
TargetAddrFlags == { <<>>, << <<>> >>, << <<"a", ":", "8">> >> }
ProxyModeFlags == { <<>>, << <<"t">> >>, << <<"f">> >> }

\* The settings the process is started with.  In the environment:
\* TS_AUTHKEY set or not, TARGET_ADDR, PROXY_MODE, INSECURE_SKIP_VERIFY,
\* LISTEN_PORT; on the command line: -target-addr, -proxy-mode; and whether
\* reading them reports an error of its own (cleanenv.ReadEnv fails;
\* another required setting is missing).
Envs ==
    [TS_AUTHKEY : BOOLEAN, TARGET_ADDR : TargetAddrs,
     PROXY_MODE : BoolTexts, INSECURE_SKIP_VERIFY : BoolTexts,
     LISTEN_PORT : ListenPorts, readFails : BOOLEAN,
     FLAG_TARGET_ADDR : TargetAddrFlags, FLAG_PROXY_MODE : ProxyModeFlags]

\* The value of a setting that has a flag and an environment variable.
\* config.go reads the environment first and gives its value to the flag
\* as default, so that a flag that is given replaces it.  The parser reads
\* the flag first and goes on to the environment when the flag's value is
\* empty.
Setting(flagValue, envValue) ==
    IF cfgImpl = "config.go"
    THEN (IF flagValue # <<>> THEN flagValue[1] ELSE envValue)
    ELSE (IF flagValue # <<>> /\ flagValue[1] # <<>> THEN flagValue[1] ELSE envValue)

TargetAddrSetting(e) == Setting(e.FLAG_TARGET_ADDR, e.TARGET_ADDR)
ProxyModeSetting(e) == Setting(e.FLAG_PROXY_MODE, e.PROXY_MODE)

\* cfg.ListenPort: LISTEN_PORT, or in config.go its env-default 8080.
ListenPortSetting(e) ==
    IF cfgImpl = "config.go" /\ e.LISTEN_PORT = <<>> THEN <<"8", "0", "8", "0">>
    ELSE e.LISTEN_PORT

\* The builds: main() of src/main.go:203-323 imports the configuration
\* package of src/internal/config/config.go; main() of src/main.go:1-201
\* imports the one of src/unnamed/part_005; the mains of
\* src/unnamed/part_003 call LoadConfig of src/config.go.
Build ==
    /\ mainImpl \in {"deadline", "nodeadline"}
    /\ cfgImpl \in {"config.go", "part_005", "internal/config"}
    /\ mainImpl = "nodeadline" <=> cfgImpl = "internal/config"
    /\ startImpl \in {"if", "switch"}
    /\ startImpl = "switch" => cfgImpl = "config.go"

ForwardTrafficTypeTCP == "tcp"
ForwardTrafficTypeHTTP == "http"
ForwardTrafficTypeHTTPS == "https"
ForwardTrafficTypeTailnetProxy == "tailnet_proxy"

DigitValue(ch) == CASE ch = "0" -> 0 [] ch = "1" -> 1 [] ch = "8" -> 8 [] OTHER -> 0

RECURSIVE AtoiValue(_)
AtoiValue(s) ==
    IF s = <<>> THEN 0
    ELSE 10 * AtoiValue(SubSeq(s, 1, Len(s) - 1)) + DigitValue(s[Len(s)])

\* strconv.Atoi(port) fails, or the number is outside 1..65535.
ListenPortInvalid(port) ==
    \/ port = <<>>
    \/ \E i \in 1..Len(port) : port[i] \notin Digits
    \/ AtoiValue(port) < 1
    \/ AtoiValue(port) > 65535

\* parser.ParseConfig calls fieldValue.SetString on every tagged field that
\* has a value.  Config of part_005 has the bool field ProxyMode, and
\* reflect's SetString panics on a Value that is not a string: ParseConfig
\* panics as soon as PROXY_MODE (or -proxy-mode) has any value, and the
\* same for the bool field InsecureSkipVerify.
ParserPanics(e) ==
    /\ cfgImpl = "part_005"
    /\ (ProxyModeSetting(e) # <<>> \/ e.INSECURE_SKIP_VERIFY # <<>>)

\* cfg.ProxyMode once the settings are read: config.go reads it as a bool;
\* with part_005 it stays false (the parser never sets it, nor its
\* default); Config of internal/config has no such field.
ProxyMode(e) == cfgImpl = "config.go" /\ ProxyModeSetting(e) = <<"t">>

\* cfg.InsecureSkipVerify: config.go reads it as a bool with the
\* env-default true; with part_005 it stays false (the parser applies a
\* default only to a field whose String() is "", which a bool's is not);
\* Config of internal/config has no such field.
InsecureSkipVerify(e) == cfgImpl = "config.go" /\ e.INSECURE_SKIP_VERIFY # <<"f">>

\* The protocol LoadConfig switches on: the text before "://", lower-cased
\* in config.go and as written elsewhere; the whole address (part_005: "")
\* without "://".
Protocol(addr) ==
    LET parts == SplitN(addr)
    IN IF cfgImpl = "config.go"
       THEN (IF Len(parts) > 1 THEN ToLower(parts[1]) ELSE <<>>)
       ELSE IF cfgImpl = "part_005"
       THEN (IF Len(parts) > 1 THEN parts[1] ELSE <<>>)
       ELSE parts[1]

\* cfg.ForwardTrafficType as LoadConfig leaves it; "" when no branch sets it.
TrafficType(e) ==
    IF ProxyMode(e) THEN ForwardTrafficTypeTailnetProxy
    ELSE IF TargetAddrSetting(e) = <<>> THEN ""
    ELSE IF Protocol(TargetAddrSetting(e)) = HTTP THEN ForwardTrafficTypeHTTP
    ELSE IF Protocol(TargetAddrSetting(e)) = HTTPS THEN ForwardTrafficTypeHTTPS
    ELSE ForwardTrafficTypeTCP

\* The check of an http(s) target: url.Parse must succeed, and then the URL
\* must have a host (config.go) or a port (part_005, internal/config).
HTTPAddressInvalid(addr) ==
    LET u == Parse(addr)
    IN u.err \/ (IF cfgImpl = "config.go" THEN u.Host = <<>> ELSE Port(u) = <<>>)

\* The errors parser.ParseConfig returns: a tagged field with no value and
\* no default is required.
ParserErrors(e) ==
    (IF e.readFails THEN {"read"} ELSE {})
    \cup (IF TargetAddrSetting(e) = <<>> THEN {"TargetAddr is required"} ELSE {})
    \cup (IF ListenPortSetting(e) = <<>> THEN {"ListenPort is required"} ELSE {})
    \cup (IF ~e.TS_AUTHKEY THEN {"TSAuthKey is required"} ELSE {})

\* The errors LoadConfig collects.
ConfigErrors(e) ==
    (IF cfgImpl = "config.go"
     THEN (IF e.readFails THEN {"read"} ELSE {})
          \cup (IF ~e.TS_AUTHKEY THEN {"ErrMissingAuthKey"} ELSE {})
     ELSE ParserErrors(e))
    \cup (IF cfgImpl # "internal/config" /\ ~ProxyMode(e) /\ TargetAddrSetting(e) = <<>>
          THEN {"ErrMissingTargetAddr"} ELSE {})
    \cup (IF ~ProxyMode(e) /\ TargetAddrSetting(e) # <<>>
             /\ (IF TrafficType(e) \in {ForwardTrafficTypeHTTP, ForwardTrafficTypeHTTPS}
                 THEN HTTPAddressInvalid(TargetAddrSetting(e))
                 ELSE SplitHostPortFails(TargetAddrSetting(e)))
          THEN {"ErrTargetAddrInvalid"} ELSE {})
    \cup (IF cfgImpl = "internal/config" /\ e.FLAG_PROXY_MODE # <<>>
          THEN {"flag provided but not defined"} ELSE {})
    \cup (IF (cfgImpl = "config.go" \/ (cfgImpl = "part_005" /\ ListenPortSetting(e) # <<>>))
             /\ ListenPortInvalid(ListenPortSetting(e))
          THEN {"ErrListenPortInvalid"} ELSE {})

NoConfig == [panic |-> FALSE, errs |-> {}, isNil |-> TRUE, TargetAddr |-> <<>>,
             ProxyMode |-> FALSE, InsecureSkipVerify |-> FALSE,
             ForwardTrafficType |-> ""]

\* A LoadConfig that returns the configuration it built next to the errors.
ConfigIsNil_Never(errs) == FALSE

\* if len(errors) > 0 { return nil, errors }; return cfg, nil
ConfigIsNil(errs) == errs # {}

\* LoadConfig(): the configuration with its derived ForwardTrafficType, and
\* the errors; main() exits when there are any.  When the parser panics
\* there is no configuration.
LoadConfig(e) ==
    IF ParserPanics(e) THEN [NoConfig EXCEPT !.panic = TRUE]
    ELSE [panic |-> FALSE, errs |-> ConfigErrors(e),
          isNil |-> ConfigIsNil(ConfigErrors(e)), TargetAddr |-> TargetAddrSetting(e),
          ProxyMode |-> ProxyMode(e), InsecureSkipVerify |-> InsecureSkipVerify(e),
          ForwardTrafficType |-> TrafficType(e)]

\* A main() whose only branch is the one for HTTP(S), whatever types the
\* configuration of its build has.
Strategy_NoProxyBranch(type) ==
    IF type \in {ForwardTrafficTypeHTTP, ForwardTrafficTypeHTTPS} THEN "HTTPServer"
    ELSE "AcceptLoop"

\* The strategy main() runs for a traffic type.  The main() with the
\* deadline has a branch for each of tailnet proxy, HTTP(S) and TCP; the
\* other main() has a branch for HTTP(S) only and runs the accept loop for
\* every other type.
Strategy(type) ==
    IF type \in {ForwardTrafficTypeHTTP, ForwardTrafficTypeHTTPS} THEN "HTTPServer"
    ELSE IF type = ForwardTrafficTypeTailnetProxy /\ mainImpl = "deadline"
    THEN "TailnetProxyServer"
    ELSE "AcceptLoop"

\* The outbound transport before main() has touched it.
NoTransport == [tls |-> "unset", writes |-> 0]

\* tls.Config{InsecureSkipVerify: skip}
TLSClientConfig(skip) == IF skip THEN "skip" ELSE "verify"

\* The outbound transport as main() has left it when it starts the strategy
\* for a traffic type.  The main() with the switch builds its transport
\* once, with the dialer ts.Dial and the TLS policy of the configuration.
\* The main() of src/main.go:203-323 sets the policy in its HTTP(S) branch
\* only, to skip, whatever the settings.  The other two set the policy of
\* the configuration on the transport of ts.HTTPClient() before they
\* branch, and once more in their HTTP(S) branch.
StartedTransport(type) ==
    IF startImpl = "switch"
    THEN [tls |-> TLSClientConfig(cfg.InsecureSkipVerify), writes |-> 1]
    ELSE IF mainImpl = "nodeadline"
    THEN (IF Strategy(type) = "HTTPServer"
          THEN [tls |-> TLSClientConfig(TRUE), writes |-> 1]
          ELSE NoTransport)
    ELSE [tls |-> TLSClientConfig(cfg.InsecureSkipVerify),
          writes |-> IF Strategy(type) = "HTTPServer" THEN 2 ELSE 1]

\* Timeouts of http.Server, in seconds; none is 0.
NoTimeout == 0
ReadHeaderTimeout == 5
WriteTimeout == 60
IdleTimeout == 60

NoServer ==
    [ReadHeaderTimeout |-> NoTimeout, WriteTimeout |-> NoTimeout, IdleTimeout |-> NoTimeout]

\* The http.Server main() builds for a traffic type.
Server(type) ==
    IF Strategy(type) = "AcceptLoop" THEN NoServer
    ELSE IF startImpl = "switch"
    THEN [ReadHeaderTimeout |-> ReadHeaderTimeout, WriteTimeout |-> NoTimeout,
          IdleTimeout |-> NoTimeout]
    ELSE IF Strategy(type) = "TailnetProxyServer"
    THEN [ReadHeaderTimeout |-> ReadHeaderTimeout, WriteTimeout |-> WriteTimeout,
          IdleTimeout |-> IdleTimeout]
    ELSE [ReadHeaderTimeout |-> ReadHeaderTimeout, WriteTimeout |-> NoTimeout,
          IdleTimeout |-> IdleTimeout]

\* The settings the TCP tunnel is followed with.
TunnelEnv ==
    [TS_AUTHKEY |-> TRUE, TARGET_ADDR |-> <<"a", ":", "8">>, PROXY_MODE |-> <<>>,
     INSECURE_SKIP_VERIFY |-> <<>>, LISTEN_PORT |-> <<"8">>, readFails |-> FALSE,
     FLAG_TARGET_ADDR |-> <<>>, FLAG_PROXY_MODE |-> <<>>]

NoRequest ==
    [pc |-> "none", URL |-> NilURL, Host |-> <<>>, TLS |-> FALSE, Header |-> {},
     Method |-> "", Body |-> <<>>,
     targetAddr |-> <<>>, outURL |-> NilURL, outHost |-> <<>>, outHeader |-> {},
     outMethod |-> "", outBody |-> <<>>,
     parsedError |-> FALSE, errWrites |-> 0, resp |-> <<>>,
     ret |-> [kind |-> "none", req |-> 0]]

\* No HTTP request arrives.
NoHTTP ==
    /\ requests = 0
    /\ rq = [r \in Reqs |-> NoRequest]
    /\ proxyError = [r \in Reqs |-> [kind |-> "nil", req |-> 0]]

Init ==
    /\ tcpImpl \in {"tcp.go", "part_000"}
    /\ mainImpl \in {"deadline", "nodeadline"}
    /\ cfgImpl \in {"config.go", "internal/config"}
    /\ startImpl = "if"
    /\ Build
    /\ \/ clients = 1 /\ quota = MaxEvents
       \/ clients = MaxConns /\ quota = MaxLoopEvents
    /\ canCloseWrite \in (IF clients = 1 THEN StreamTypes ELSE {Sides})
    /\ listener = "open"
    /\ mainPc = "accept"
    /\ acceptErrs = 0
    /\ events = 0
    /\ sess = [c \in Conns |-> "none"]
    /\ failedBefore = [c \in Conns |-> 0]
    /\ timedOut = [c \in Conns |-> FALSE]
    /\ conn = [c \in Conns |-> [s \in Sides |-> NoConn]]
    /\ task = [c \in Conns |-> [d \in Dirs |-> IdleTask]]
    /\ wire = [c \in Conns |-> [d \in Dirs |-> EmptyWire]]
    /\ dials = [c \in Conns |-> 0]
    /\ ctxDone = [c \in Conns |-> FALSE]
    /\ gerr = [c \in Conns |-> "nil"]
    /\ gctxDone = [c \in Conns |-> FALSE]
    /\ ret = [c \in Conns |-> [kind |-> "none", cause |-> "nil"]]
    /\ httpImpl = "http.go"
    /\ env = TunnelEnv
    /\ cfg = LoadConfig(TunnelEnv)
    /\ ran = <<Strategy(cfg.ForwardTrafficType)>>
    /\ transport = StartedTransport(cfg.ForwardTrafficType)
    /\ server = Server(cfg.ForwardTrafficType)
    /\ NoHTTP

\* ------------------------------------------------------- the accept loop
\* A client connects to the listening port; the kernel queues the connection
\* until main() accepts it.  Connections are numbered in order of arrival.
ClientConnect(c) ==
    /\ listener = "open"
    /\ c <= clients
    /\ sess[c] = "none"
    /\ \A b \in Conns : b < c => sess[b] # "none"
    /\ sess' = [sess EXCEPT ![c] = "queued"]
    /\ UNCHANGED <<fixedVars, bootVars, httpVars, loopVars, events, histVars, conn, task, wire, dials,
                   ctxDone, gerr, gctxDone, ret>>

\* main() calling fwdTCP itself instead of in a goroutine: it waits for the
\* forwarder to return.
AfterSpawn_WaitsForForwarder(c) == "wait"

\* Where main() is after it handed an accepted connection to `go func`: back
\* at Accept(), without waiting for the goroutine.
AfterSpawn(c) == "accept"

\* for { conn, err := listener.Accept(); ... go func(...){...}(conn) }:
\* Accept() returned a connection, the one that has waited longest, and the
\* loop starts a goroutine for it.  The loop keeps no count of the
\* goroutines it started.
AcceptOK(c) ==
    /\ mainPc = "accept"
    /\ listener = "open"
    /\ sess[c] = "queued"
    /\ \A b \in Conns : b < c => sess[b] # "queued"
    /\ sess' = [sess EXCEPT ![c] = "spawned"]
    /\ failedBefore' = [failedBefore EXCEPT ![c] = acceptErrs]
    /\ conn' = [conn EXCEPT ![c]["lstConn"].state = "open"]
    /\ mainPc' = AfterSpawn(c)
    /\ UNCHANGED <<fixedVars, bootVars, httpVars, listener, acceptErrs, events, timedOut, task,
                   wire, dials, ctxDone, gerr, gctxDone, ret>>

\* An accept loop that gives up on an Accept() error.
AfterAcceptError_Fatal(kind) == "exited"

\* Where main() is after Accept() returned an error: the error is logged and
\* the loop continues, whatever the error is.
AfterAcceptError(kind) == "accept"

\* Accept() returned an error: a transient one, or the error of a listener
\* that is closed (from then on every Accept() fails the same way).
AcceptErr(kind) ==
    /\ mainPc = "accept"
    /\ MayHappen
    /\ listener = "closed" => kind = "closed"
    /\ listener' = IF kind = "closed" THEN "closed" ELSE listener
    /\ acceptErrs' = acceptErrs + 1
    /\ events' = events + 1
    /\ mainPc' = AfterAcceptError(kind)
    /\ UNCHANGED <<fixedVars, bootVars, httpVars, sess, histVars, conn, task, wire, dials, ctxDone,
                   gerr, gctxDone, ret>>

\* The deadline the goroutine sets on the accepted connection before it
\* calls fwdTCP: time.Now().Add(5 * time.Minute), or none in the build whose
\* goroutine only calls fwdTCP.
DeadlineOnAccept == IF mainImpl = "deadline" THEN "armed" ELSE "none"

\* The goroutine body up to fwdTCP's call of ts.Dial.
GoFunc(c) ==
    /\ sess[c] = "spawned"
    /\ conn' = [conn EXCEPT ![c]["lstConn"].dl = DeadlineOnAccept]
    /\ sess' = [sess EXCEPT ![c] = "dial"]
    /\ dials' = [dials EXCEPT ![c] = @ + 1]
    /\ UNCHANGED <<fixedVars, bootVars, httpVars, loopVars, events, histVars, task, wire, ctxDone, gerr,
                   gctxDone, ret>>

\* Time reaches the deadline main() armed on the accepted connection.
DeadlineExpires(c) ==
    /\ conn[c]["lstConn"].state = "open"
    /\ conn[c]["lstConn"].dl = "armed"
    /\ conn' = [conn EXCEPT ![c]["lstConn"].dl = "timedout"]
    /\ timedOut' = [timedOut EXCEPT ![c] = TRUE]
    /\ UNCHANGED <<fixedVars, bootVars, httpVars, loopVars, events, sess, failedBefore, task, wire,
                   dials, ctxDone, gerr, gctxDone, ret>>

\* ------------------------------------------------------------ fwdTCP: dial
\* ts.Dial succeeded: defer tsConn.Close() is registered and both copy
\* goroutines are started with g.Go.
DialOK(c) ==
    /\ sess[c] = "dial"
    /\ conn' = [conn EXCEPT ![c]["tsConn"].state = "open"]
    /\ task' = [task EXCEPT ![c] = [d \in Dirs |-> [IdleTask EXCEPT !.pc = "read"]]]
    /\ sess' = [sess EXCEPT ![c] = "copy"]
    /\ UNCHANGED <<fixedVars, bootVars, httpVars, loopVars, events, histVars, wire, dials, ctxDone, gerr,
                   gctxDone, ret>>

\* A forwarder that dials a second time before it gives up.
DialErrorReturn_Retry(c) ==
    IF dials[c] < 2
    THEN /\ dials' = [dials EXCEPT ![c] = @ + 1]
         /\ UNCHANGED <<fixedVars, bootVars, httpVars, loopVars, events, histVars, sess, conn, task,
                        wire, ctxDone, gerr, gctxDone, ret>>
    ELSE /\ conn' = [conn EXCEPT ![c]["lstConn"] = Closed(@)]
         /\ ctxDone' = [ctxDone EXCEPT ![c] = TRUE]
         /\ ret' = [ret EXCEPT ![c] = [kind |-> "dial", cause |-> "nil"]]
         /\ sess' = [sess EXCEPT ![c] = "returned"]
         /\ UNCHANGED <<fixedVars, bootVars, httpVars, loopVars, events, histVars, task, wire, dials,
                        gerr, gctxDone>>

\* if err != nil { return fmt.Errorf("failed to dial tailscale node: %w", err) }
\* with the deferred lstConn.Close() and cancel().
DialErrorReturn(c) ==
    /\ conn' = [conn EXCEPT ![c]["lstConn"] = Closed(@)]
    /\ ctxDone' = [ctxDone EXCEPT ![c] = TRUE]
    /\ ret' = [ret EXCEPT ![c] = [kind |-> "dial", cause |-> "nil"]]
    /\ sess' = [sess EXCEPT ![c] = "returned"]
    /\ UNCHANGED <<fixedVars, bootVars, httpVars, loopVars, events, histVars, task, wire, dials, gerr,
                   gctxDone>>

\* ts.Dial returned an error (connection refused, no route, ...).
DialFail(c) ==
    /\ sess[c] = "dial"
    /\ DialErrorReturn(c)

\* The ten-second timeout of dialCtx elapsed before ts.Dial completed: Dial
\* returns the context's error.  Only fwdTCP of part_000 has this timeout.
DialTimeout(c) ==
    /\ sess[c] = "dial"
    /\ tcpImpl = "part_000"
    /\ DialErrorReturn(c)

\* ------------------------------------------------------------- the peers
\* The source of direction d (the local client for l2r, the target for r2l)
\* sends its next byte.
PeerSend(c, d) ==
    /\ MayHappen
    /\ conn[c][SrcOf(d)].state = "open"
    /\ ~conn[c][SrcOf(d)].rst
    /\ ~wire[c][d].fin
    /\ LET b == Byte(c, d, Len(wire[c][d].sent) + 1) IN
       wire' = [wire EXCEPT ![c][d].sent = Append(@, b),
                            ![c][d].inflight = Append(@, b)]
    /\ events' = events + 1
    /\ UNCHANGED <<fixedVars, bootVars, httpVars, loopVars, sess, histVars, conn, task, dials, ctxDone,
                   gerr, gctxDone, ret>>

\* The source of direction d finishes sending: it shuts down its write side,
\* and the forwarder's reads see EOF after the bytes in flight.
PeerFin(c, d) ==
    /\ MayHappen
    /\ conn[c][SrcOf(d)].state = "open"
    /\ ~conn[c][SrcOf(d)].rst
    /\ ~wire[c][d].fin
    /\ wire' = [wire EXCEPT ![c][d].fin = TRUE]
    /\ events' = events + 1
    /\ UNCHANGED <<fixedVars, bootVars, httpVars, loopVars, sess, histVars, conn, task, dials, ctxDone,
                   gerr, gctxDone, ret>>

\* The peer of connection s aborts it (RST): reads and writes on it fail.
PeerReset(c, s) ==
    /\ MayHappen
    /\ conn[c][s].state = "open"
    /\ ~conn[c][s].rst
    /\ conn' = [conn EXCEPT ![c][s].rst = TRUE]
    /\ events' = events + 1
    /\ UNCHANGED <<fixedVars, bootVars, httpVars, loopVars, sess, histVars, task, wire, dials, ctxDone,
                   gerr, gctxDone, ret>>

\* ------------------------------------------------- fwdTCP: the copy tasks
\* A goroutine that reads the loop's connection variable when it runs, not
\* when it was started: it forwards the connection accepted last.
ConnArg_LoopVariable(c) ==
    CHOOSE b \in Conns :
        /\ conn[b]["lstConn"].state # "none"
        /\ \A a \in Conns : conn[a]["lstConn"].state # "none" => a <= b

\* The accepted connection the goroutine started for connection c forwards:
\* the argument of `go func(clientConn net.Conn){...}(conn)`, or the variable
\* conn that `conn, err := listener.Accept()` declares anew in every
\* iteration.  Either way it is the connection of that iteration.
ConnArg(c) == c

\* A forwarder that keeps the first outbound connection and uses it for
\* every session.
TsConn_Pooled(c) == 1

\* The outbound connection the copy goroutines of session c use: tsConn, a
\* local variable of fwdTCP assigned from that call's own ts.Dial.
TsConn(c) == c

\* The stream a copy goroutine of session c reads from and the one it writes
\* to: lstConn is the goroutine's argument, tsConn the session's own dial.
ReadWire(c, d) == IF d = "l2r" THEN ConnArg(c) ELSE TsConn(c)
WriteWire(c, d) == IF d = "l2r" THEN TsConn(c) ELSE ConnArg(c)

\* io.Copy: src.Read returned k bytes.
CopyRead(c, d, k) ==
    /\ sess[c] = "copy"
    /\ task[c][d].pc = "read"
    /\ ~conn[c][SrcOf(d)].rst
    /\ k \in 1..Len(wire[ReadWire(c, d)][d].inflight)
    /\ task' = [task EXCEPT ![c][d].pc = "write",
                            ![c][d].buf = SubSeq(wire[ReadWire(c, d)][d].inflight, 1, k)]
    /\ wire' = [wire EXCEPT ![ReadWire(c, d)][d].inflight = SubSeq(@, k + 1, Len(@))]
    /\ UNCHANGED <<fixedVars, bootVars, httpVars, loopVars, events, sess, histVars, conn, dials, ctxDone,
                   gerr, gctxDone, ret>>

\* io.Copy: dst.Write took the bytes just read, and the peer of the
\* destination has them.  Write blocks until the peer's window takes them.
CopyWrite(c, d) ==
    /\ sess[c] = "copy"
    /\ task[c][d].pc = "write"
    /\ ~conn[c][DstOf(d)].rst
    /\ ~Expired(conn[c][DstOf(d)])
    /\ wire' = [wire EXCEPT ![WriteWire(c, d)][d].recv = @ \o task[c][d].buf]
    /\ task' = [task EXCEPT ![c][d].pc = "read", ![c][d].buf = <<>>]
    /\ UNCHANGED <<fixedVars, bootVars, httpVars, loopVars, events, sess, histVars, conn, dials, ctxDone,
                   gerr, gctxDone, ret>>

\* Whether a copy goroutine whose io.Copy returned nil goes on to call
\* CloseWrite on its destination (part_000); tcp.go just returns nil.
HalfCloses == tcpImpl = "part_000"

\* Whether a copy goroutine calls cancel() when io.Copy returned an error.
CancelsOnCopyError == tcpImpl = "part_000"

\* The deadline a copy goroutine's deferred function leaves on its
\* destination connection: SetDeadline(time.Now()) in part_000, which
\* replaces whatever deadline the connection had; tcp.go has no such defer.
DeadlineAfterTask(cn) == IF tcpImpl = "part_000" THEN "nudged" ELSE cn.dl

ErrName(d, e) ==
    IF e = "nil" THEN "nil"
    ELSE IF d = "l2r" THEN (IF e = "copy" THEN "l2r.copy" ELSE "l2r.closewrite")
    ELSE (IF e = "copy" THEN "r2l.copy" ELSE "r2l.closewrite")

\* A copy goroutine ends with error e, after a CloseWrite on its destination
\* if halfClosed.  In order: cancel() on a copy error, the return, the
\* deferred SetDeadline on the destination, and errgroup's bookkeeping: the
\* first non-nil error is kept and cancels the group's context.
TaskEnds(c, d, e, halfClosed) ==
    /\ task' = [task EXCEPT ![c][d] = [pc |-> "done", buf |-> <<>>, err |-> e]]
    /\ conn' = [conn EXCEPT
                  ![c][DstOf(d)].wclosed = @ \/ halfClosed,
                  ![c][DstOf(d)].dl = DeadlineAfterTask(conn[c][DstOf(d)])]
    /\ ctxDone' = [ctxDone EXCEPT ![c] = @ \/ (e = "copy" /\ CancelsOnCopyError)]
    /\ gctxDone' = [gctxDone EXCEPT
                      ![c] = @ \/ (e = "copy" /\ CancelsOnCopyError) \/ e # "nil"]
    /\ gerr' = [gerr EXCEPT ![c] = IF @ = "nil" THEN ErrName(d, e) ELSE @]
    /\ UNCHANGED <<fixedVars, bootVars, httpVars, loopVars, events, sess, histVars, wire, dials, ret>>

\* A half-close step that takes a destination without a CloseWrite method
\* for a failure.
CloseWrite_RequiresMethod(cn, ok) ==
    IF ~ok \/ cn.rst THEN "closewrite" ELSE "nil"

\* The half-close step of part_000 on destination cn, ok telling whether the
\* type assertion to interface{ CloseWrite() error } succeeds: without the
\* method the step is skipped; with it CloseWrite is called, which fails on
\* a connection that was reset, and the goroutine returns that error.
CloseWrite(cn, ok) ==
    IF ok /\ cn.rst THEN "closewrite" ELSE "nil"

\* io.Copy: src.Read returned io.EOF, so io.Copy returns nil.  In part_000
\* the goroutine then goes through the half-close step on its destination.
CopyEOF(c, d) ==
    /\ sess[c] = "copy"
    /\ task[c][d].pc = "read"
    /\ ~conn[c][SrcOf(d)].rst
    /\ wire[ReadWire(c, d)][d].inflight = <<>>
    /\ wire[ReadWire(c, d)][d].fin
    /\ LET ok == DstOf(d) \in canCloseWrite
           e == IF HalfCloses THEN CloseWrite(conn[c][DstOf(d)], ok) ELSE "nil"
       IN TaskEnds(c, d, e, HalfCloses /\ ok /\ e = "nil")

\* io.Copy: src.Read failed: the source connection was reset, or its
\* deadline has passed.
CopyReadErr(c, d) ==
    /\ sess[c] = "copy"
    /\ task[c][d].pc = "read"
    /\ conn[c][SrcOf(d)].rst \/ Expired(conn[c][SrcOf(d)])
    /\ TaskEnds(c, d, "copy", FALSE)

\* io.Copy: dst.Write failed: the destination connection was reset, or its
\* deadline has passed.
CopyWriteErr(c, d) ==
    /\ sess[c] = "copy"
    /\ task[c][d].pc = "write"
    /\ conn[c][DstOf(d)].rst \/ Expired(conn[c][DstOf(d)])
    /\ TaskEnds(c, d, "copy", FALSE)

\* ---------------------------------------------------- fwdTCP: the return
\* The value fwdTCP returns after g.Wait() gave err, with groupCtxErr telling
\* whether groupCtx.Err() is non-nil at that point.
\*   tcp.go:    if err := g.Wait(); err != nil { return "connection error" }
\*   part_000:  if err := g.Wait(); err != nil && groupCtx.Err() == nil {...}
ReturnValue(err, groupCtxErr) ==
    IF tcpImpl = "tcp.go"
    THEN (IF err # "nil" THEN [kind |-> "conn", cause |-> err]
                         ELSE [kind |-> "nil", cause |-> "nil"])
    ELSE (IF err # "nil" /\ ~groupCtxErr THEN [kind |-> "conn", cause |-> err]
                                         ELSE [kind |-> "nil", cause |-> "nil"])

\* g.Wait() returns once both goroutines are done; it cancels the group's
\* context before it returns.  fwdTCP then returns, and its deferred calls
\* run: tsConn.Close(), cancel(), lstConn.Close().
WaitReturn(c) ==
    /\ sess[c] = "copy"
    /\ \A d \in Dirs : task[c][d].pc = "done"
    /\ gctxDone' = [gctxDone EXCEPT ![c] = TRUE]
    /\ ret' = [ret EXCEPT ![c] = ReturnValue(gerr[c], gctxDone'[c])]
    /\ conn' = [conn EXCEPT ![c] = [s \in Sides |-> Closed(conn[c][s])]]
    /\ ctxDone' = [ctxDone EXCEPT ![c] = TRUE]
    /\ sess' = [sess EXCEPT ![c] = "returned"]
    /\ UNCHANGED <<fixedVars, bootVars, httpVars, loopVars, events, histVars, task, wire, dials, gerr>>

\* ------------------------------------------------------ the specification
Next ==
    \/ \E c \in Conns : ClientConnect(c)
    \/ \E c \in Conns : AcceptOK(c)
    \/ \E kind \in {"transient", "closed"} : AcceptErr(kind)
    \/ \E c \in Conns : GoFunc(c)
    \/ \E c \in Conns : DeadlineExpires(c)
    \/ \E c \in Conns : DialOK(c)
    \/ \E c \in Conns : DialFail(c)
    \/ \E c \in Conns : DialTimeout(c)
    \/ \E c \in Conns, d \in Dirs : PeerSend(c, d)
    \/ \E c \in Conns, d \in Dirs : PeerFin(c, d)
    \/ \E c \in Conns, s \in Sides : PeerReset(c, s)
    \/ \E c \in Conns, d \in Dirs, k \in 1..quota : CopyRead(c, d, k)
    \/ \E c \in Conns, d \in Dirs : CopyWrite(c, d)
    \/ \E c \in Conns, d \in Dirs : CopyEOF(c, d)
    \/ \E c \in Conns, d \in Dirs : CopyReadErr(c, d)
    \/ \E c \in Conns, d \in Dirs : CopyWriteErr(c, d)
    \/ \E c \in Conns : WaitReturn(c)

Spec == Init /\ [][Next]_vars

\* The steps of a copy goroutine that need nothing more from the peers:
\* a read of bytes that have arrived, of EOF, or that fails; a write that
\* fails.  A write that succeeds needs the peer to take the bytes.
TaskStep(c, d) ==
    \/ \E k \in 1..quota : CopyRead(c, d, k)
    \/ CopyEOF(c, d)
    \/ CopyReadErr(c, d)
    \/ CopyWriteErr(c, d)

\* The Go scheduler runs every goroutine that can take a step, timers fire,
\* time reaches every deadline, and a connection attempt of the network
\* stack ends, in success or in failure.  Nothing obliges a client to
\* connect, or a peer to send, to close or to take bytes.
Fairness ==
    \A c \in Conns :
        /\ WF_vars(AcceptOK(c))
        /\ WF_vars(GoFunc(c))
        /\ WF_vars(DeadlineExpires(c))
        /\ WF_vars(DialOK(c) \/ DialFail(c) \/ DialTimeout(c))
        /\ WF_vars(WaitReturn(c))
        /\ \A d \in Dirs : WF_vars(TaskStep(c, d))

FairSpec == Spec /\ Fairness

\* ------------------------------------------------------------- start-up
\* The TCP tunnel before any connection, with no client to come.
NoTunnel ==
    /\ tcpImpl = "tcp.go"
    /\ clients = 0
    /\ quota = 0
    /\ canCloseWrite = Sides
    /\ acceptErrs = 0
    /\ events = 0
    /\ sess = [c \in Conns |-> "none"]
    /\ failedBefore = [c \in Conns |-> 0]
    /\ timedOut = [c \in Conns |-> FALSE]
    /\ conn = [c \in Conns |-> [s \in Sides |-> NoConn]]
    /\ task = [c \in Conns |-> [d \in Dirs |-> IdleTask]]
    /\ wire = [c \in Conns |-> [d \in Dirs |-> EmptyWire]]
    /\ dials = [c \in Conns |-> 0]
    /\ ctxDone = [c \in Conns |-> FALSE]
    /\ gerr = [c \in Conns |-> "nil"]
    /\ gctxDone = [c \in Conns |-> FALSE]
    /\ ret = [c \in Conns |-> [kind |-> "none", cause |-> "nil"]]

\* Settings without flags and without INSECURE_SKIP_VERIFY.
PlainEnv(e) ==
    /\ e.FLAG_TARGET_ADDR = <<>>
    /\ e.FLAG_PROXY_MODE = <<>>
    /\ e.INSECURE_SKIP_VERIFY = <<>>

\* The process has just been started with some settings; a request will
\* arrive, or none.
BootInit ==
    /\ mainImpl \in {"deadline", "nodeadline"}
    /\ cfgImpl \in {"config.go", "part_005", "internal/config"}
    /\ Build
    /\ httpImpl = "http.go"
    /\ env \in Envs
    /\ cfg = NoConfig
    /\ ran = <<>>
    /\ transport = NoTransport
    /\ server = NoServer
    /\ mainPc = "load"
    /\ listener = "none"
    /\ NoTunnel
    /\ requests \in {0, 1}
    /\ requests = 1 => PlainEnv(env)
    /\ rq = [r \in Reqs |-> NoRequest]
    /\ proxyError = [r \in Reqs |-> [kind |-> "nil", req |-> 0]]

\* cfg, errs := config.LoadConfig(); if len(errs) > 0 { ...; os.Exit(1) }
LoadConfigStep ==
    /\ mainPc = "load"
    /\ cfg' = LoadConfig(env)
    /\ mainPc' = IF cfg'.panic \/ cfg'.errs # {} THEN "exited" ELSE "start"
    /\ UNCHANGED <<mainImpl, cfgImpl, env, ran, startImpl, transport, server, listener,
                   tcpVars, httpVars>>

\* A main() that listens with tls.Listen.
NetListen_TLS == "tls"

\* listener, err := net.Listen("tcp", listenAddr): a plain TCP listener, which
\* main() hands to server.Serve as it is.
NetListen == "open"

\* ts.Start() and net.Listen("tcp", listenAddr) succeed.
Listen ==
    /\ mainPc = "start"
    /\ listener' = NetListen
    /\ mainPc' = "dispatch"
    /\ UNCHANGED <<mainImpl, bootVars, tcpVars, httpVars>>

\* ts.Start(), os.MkdirAll or net.Listen fails: os.Exit(1).
StartFails ==
    /\ mainPc = "start"
    /\ mainPc' = "exited"
    /\ UNCHANGED <<mainImpl, bootVars, listener, tcpVars, httpVars>>

\* main() sets up the outbound transport, branches on
\* cfg.ForwardTrafficType and runs the strategy of the branch: it builds
\* the http.Server and calls server.Serve(listener), or enters the accept
\* loop.
Dispatch ==
    /\ mainPc = "dispatch"
    /\ transport' = StartedTransport(cfg.ForwardTrafficType)
    /\ server' = Server(cfg.ForwardTrafficType)
    /\ ran' = Append(ran, Strategy(cfg.ForwardTrafficType))
    /\ mainPc' = IF Strategy(cfg.ForwardTrafficType) = "AcceptLoop" THEN "accept" ELSE "serve"
    /\ UNCHANGED <<mainImpl, cfgImpl, env, cfg, startImpl, listener, tcpVars, httpVars>>

\* A main() that logs the error of server.Serve and goes on to the code
\* after the branch, the accept loop.
ServeReturns_GoesOn ==
    /\ mainPc = "serve"
    /\ mainPc' = "accept"
    /\ UNCHANGED <<mainImpl, bootVars, listener, tcpVars, httpVars>>

\* server.Serve(listener) returns, always with a non-nil error: the error is
\* logged and the process exits with os.Exit(1).
ServeReturns ==
    /\ mainPc = "serve"
    /\ mainPc' = "exited"
    /\ UNCHANGED <<mainImpl, bootVars, listener, tcpVars, httpVars>>

\* ---------------------------------------------------------- the HTTP side
\* The hop-by-hop headers of the spec, and a header that is not one.
HopByHop ==
    {"Connection", "Keep-Alive", "Proxy-Authenticate", "Proxy-Authorization",
     "Te", "Trailers", "Transfer-Encoding", "Upgrade", "Proxy-Connection"}

\* var hopHeaders: what the Director deletes from the outbound request.
\* part_002 has no such list and deletes nothing.
hopHeaders ==
    IF httpImpl = "part_001" THEN HopByHop
    ELSE IF httpImpl = "http.go" THEN HopByHop \ {"Proxy-Connection"}
    ELSE {}

\* req.Header.Del(key): the header without the entry of that name.
Del(header, key) == header \ {key}

RECURSIVE DelEach(_, _)
DelEach(header, keys) ==
    IF keys = {} THEN header
    ELSE LET k == CHOOSE k \in keys : TRUE
         IN DelEach(Del(header, k), keys \ {k})

\* A loop that ends after the first header it has deleted.
StripHopHeaders_StopsAtFirst(header) ==
    IF header \cap hopHeaders = {} THEN header
    ELSE Del(header, CHOOSE k \in header \cap hopHeaders : TRUE)

\* for _, h := range hopHeaders { req.Header.Del(h) }
StripHopHeaders(header) == DelEach(header, hopHeaders)

\* Status codes an upstream answers with.
Statuses == {200, 404}

\* r.URL of an inbound request, as the server parsed the request line:
\* "/x?y=1", "/" and "*".
InURL(path, query) ==
    [err |-> FALSE, Scheme |-> <<>>, Opaque |-> <<>>, Host |-> <<>>,
     Path |-> path, RawQuery |-> query, ForceQuery |-> FALSE]
InURLs ==
    { InURL(<<"/", "x">>, <<"y", "=", "1">>), InURL(<<"/">>, <<>>), InURL(<<"*">>, <<>>) }

\* The Host of an inbound request: "a", "a:8", "a:x", or none (HTTP/1.0).
InHosts == { <<"a">>, <<"a", ":", "8">>, <<"a", ":", "x">>, <<>> }

\* The header names of an inbound request: no hop-by-hop header, one of
\* them, or all of them.
InHeaders ==
    { {"Accept"}, HopByHop \cup {"Accept"} } \cup { {h, "Accept"} : h \in HopByHop }

\* The inbound requests: any of them when one request is followed, and two
\* of them when several requests are in flight.  Only the tailnet proxy
\* reads r.Host and r.TLS; a fixed-target server is followed with two of
\* the hosts.  net/http sets r.TLS for a request that came over a TLS
\* connection, that is, when the listener the server serves on is a TLS
\* listener, and leaves it nil otherwise.
\* The requests to "/x?y=1" are POST requests with a body, the others GET
\* requests without one.
InRequests(urls, hosts, tls, headers) ==
    { [URL |-> u, Host |-> h, TLS |-> t, Header |-> hd,
       Method |-> IF u.RawQuery # <<>> THEN "POST" ELSE "GET",
       Body |-> IF u.RawQuery # <<>> THEN <<"b">> ELSE <<>>] :
        u \in urls, h \in hosts, t \in tls, hd \in headers }

Inbound ==
    IF requests = 1 /\ ran = <<"TailnetProxyServer">>
    THEN InRequests(InURLs, InHosts, {listener = "tls"}, InHeaders)
    ELSE IF requests = 1
    THEN InRequests(InURLs, { <<"a">>, <<"a", ":", "x">> }, {listener = "tls"},
                    InHeaders)
    ELSE InRequests({InURL(<<"/", "x">>, <<"y", "=", "1">>), InURL(<<"*">>, <<>>)},
                    { <<"a", ":", "8">> }, {listener = "tls"}, { {"Accept"} })

NilErr == [kind |-> "nil", req |-> 0]
NoRet == [kind |-> "none", req |-> 0]

\* The HTTP server has started, with a configuration that loaded without
\* errors and made main() run a server.  The handlers are followed behind
\* main()'s listener, and the tailnet proxy handler, which reads r.TLS, also
\* behind a TLS listener, as a server other than main()'s may serve it.
HttpInit ==
    /\ mainImpl \in {"deadline", "nodeadline"}
    /\ cfgImpl \in {"config.go", "part_005", "internal/config"}
    /\ Build
    /\ httpImpl \in {"http.go", "part_001", "part_002"}
    /\ requests \in {1, MaxReqs}
    /\ env \in {e \in Envs : e.TS_AUTHKEY /\ ~e.readFails /\ e.LISTEN_PORT = <<"8">>
                            /\ e.PROXY_MODE # <<"f">>
                            /\ (e.PROXY_MODE = <<"t">> => e.TARGET_ADDR = <<>>)
                            /\ e.FLAG_TARGET_ADDR = <<>> /\ e.FLAG_PROXY_MODE = <<>>}
    /\ PlainEnv(env) \/ (requests = 1 /\ httpImpl = "http.go")
    /\ cfg = LoadConfig(env)
    /\ ~cfg.panic
    /\ cfg.errs = {}
    /\ Strategy(cfg.ForwardTrafficType) # "AcceptLoop"
    /\ ran = <<Strategy(cfg.ForwardTrafficType)>>
    /\ transport = StartedTransport(cfg.ForwardTrafficType)
    /\ server = Server(cfg.ForwardTrafficType)
    /\ mainPc = "serve"
    /\ listener \in (IF requests = 1 /\ ran = <<"TailnetProxyServer">>
                      THEN {NetListen, "tls"} ELSE {NetListen})
    /\ NoTunnel
    /\ rq = [r \in Reqs |-> NoRequest]
    /\ proxyError = [r \in Reqs |-> NilErr]

\* A proxyError declared at package level: every call of fwdHttp writes and
\* returns the same variable.
ErrSlot_PackageLevel(r) == 1

\* The variable proxyError the closures of the call of fwdHttp for request r
\* write and the call returns: declared inside fwdHttp, one per call.
ErrSlot(r) == r

\* A handler that derives the scheme http:// whatever the connection.
TailnetTarget_AlwaysHTTP(in) == HTTP \o SchemeSep \o in.Host

\* TailnetProxy.ServeHTTP: the target is the scheme, https:// if the
\* request came over TLS and http:// otherwise, followed by r.Host.
TailnetTarget(in) ==
    (IF in.TLS THEN HTTPS ELSE HTTP) \o SchemeSep \o in.Host

\* The targetAddr the handler of the running server passes to fwdHttp.
HandlerTarget(in) ==
    IF ran = <<"TailnetProxyServer">> THEN TailnetTarget(in) ELSE cfg.TargetAddr

\* A rewrite that builds a new GET request for the target URL instead of
\* changing the outbound copy of the inbound one.
Rewritten_FreshRequest(in, targetURL) ==
    [URL |-> targetURL, Host |-> targetURL.Host, Header |-> {},
     Method |-> "GET", Body |-> <<>>]

\* The outbound request after the Director's assignments, req being the
\* reverse proxy's copy of the inbound request: req.URL = targetURL,
\* req.Host = req.URL.Host, and hopHeaders deleted from req.Header.
\* Nothing else of req is assigned.
Rewritten(in, targetURL) ==
    [URL |-> targetURL, Host |-> targetURL.Host,
     Header |-> StripHopHeaders(in.Header),
     Method |-> in.Method, Body |-> in.Body]

\* The Director of fwdHttp, on the outbound copy of request in:
\* url.Parse(targetAddr + req.URL.RequestURI()).  When parsing fails,
\* http.go and part_001 record the error and leave the request as it is;
\* part_002 ignores the error and dereferences the nil URL, which panics.
\* Otherwise the URL and the Host are replaced and hopHeaders deleted.
Director(r, in, targetAddr) ==
    \E targetURL \in {Parse(targetAddr \o RequestURI(in.URL))} :
    \E out \in {Rewritten(in, targetURL)} :
    LET base == [NoRequest EXCEPT !.URL = in.URL, !.Host = in.Host, !.TLS = in.TLS,
                                  !.Header = in.Header, !.Method = in.Method,
                                  !.Body = in.Body, !.targetAddr = targetAddr]
    IN IF targetURL.err /\ httpImpl = "part_002"
       THEN /\ rq' = [rq EXCEPT ![r] = [base EXCEPT !.pc = "panicked"]]
            /\ UNCHANGED proxyError
       ELSE IF targetURL.err
       THEN /\ rq' = [rq EXCEPT ![r] =
                        [base EXCEPT !.pc = "roundtrip", !.outURL = in.URL,
                                     !.outHost = in.Host, !.outHeader = in.Header,
                                     !.outMethod = in.Method, !.outBody = in.Body,
                                     !.parsedError = TRUE, !.errWrites = 1]]
            /\ proxyError' = [proxyError EXCEPT ![ErrSlot(r)] = [kind |-> "parse", req |-> r]]
       ELSE /\ rq' = [rq EXCEPT ![r] =
                        [base EXCEPT !.pc = "roundtrip", !.outURL = out.URL,
                                     !.outHost = out.Host,
                                     !.outHeader = out.Header,
                                     !.outMethod = out.Method,
                                     !.outBody = out.Body]]
            /\ proxyError' = [proxyError EXCEPT ![ErrSlot(r)] = NilErr]

\* A handler that sets the TLS policy of the shared transport for its
\* request.
HandlerTransport_Reconfigures(t) == [t EXCEPT !.writes = @ + 1]

\* What a handler and fwdHttp do to the shared transport: fwdHttp reads
\* outboundClient.Transport into its ReverseProxy, and nothing writes it.
HandlerTransport(t) == t

\* A tailnet proxy that forwards whatever the Host.
NoHost_Forwarded(in) == FALSE

\* if targetHost == "": the tailnet proxy answers 400 and returns.
NoHost(in) == in.Host = <<>>

\* The server calls its handler for an inbound request.  The tailnet proxy
\* answers 400 to a request without Host; otherwise the handler calls
\* fwdHttp, which finds parsedError still false, calls proxy.ServeHTTP, and
\* the reverse proxy runs the Director and starts the round trip.
ServeHTTP(r, in) ==
    /\ mainPc = "serve"
    /\ r <= requests
    /\ rq[r].pc = "none"
    /\ \A q \in Reqs : q < r => rq[q].pc # "none"
    /\ IF ran = <<"TailnetProxyServer">> /\ NoHost(in)
       THEN /\ rq' = [rq EXCEPT ![r] =
                        [NoRequest EXCEPT !.pc = "rejected", !.URL = in.URL,
                                          !.Host = in.Host, !.TLS = in.TLS,
                                          !.Header = in.Header, !.Method = in.Method,
                                          !.Body = in.Body, !.resp = <<400>>]]
            /\ UNCHANGED proxyError
       ELSE Director(r, in, HandlerTarget(in))
    /\ transport' = HandlerTransport(transport)
    /\ UNCHANGED <<mainImpl, mainPc, listener, cfgImpl, env, cfg, ran, startImpl, server,
                   tcpVars, httpImpl, requests>>

\* A fwdHttp that answers the caller but keeps the error to itself.
FwdHttpReturn_Swallowed(err) == NilErr

\* mu.Lock(); defer mu.Unlock(); return proxyError: what fwdHttp returns
\* after proxy.ServeHTTP, err being the value of its proxyError then.
FwdHttpReturn(err) == err

\* http.Transport can send the request: its URL has the scheme http or
\* https and a host.
Sendable(u) == ~u.err /\ u.Scheme \in {HTTP, HTTPS} /\ u.Host # <<>>

\* Transport.RoundTrip returned an error (no scheme or host in the URL,
\* connect, timeout, ...): the ErrorHandler answers 502 and stores the error
\* in proxyError, and fwdHttp returns proxyError.
RoundTripFails(r) ==
    /\ mainPc = "serve"
    /\ rq[r].pc = "roundtrip"
    /\ proxyError' = [proxyError EXCEPT ![ErrSlot(r)] = [kind |-> "transport", req |-> r]]
    /\ rq' = [rq EXCEPT ![r].pc = "returned",
                        ![r].resp = Append(@, 502),
                        ![r].errWrites = @ + 1,
                        ![r].ret = FwdHttpReturn(proxyError'[ErrSlot(r)])]
    /\ UNCHANGED <<mainImpl, mainPc, listener, bootVars, tcpVars, httpImpl, requests>>

\* Transport.RoundTrip returned the upstream's response: the reverse proxy
\* writes its status and headers to the caller and starts copying the body.
RoundTripOK(r, status) ==
    /\ mainPc = "serve"
    /\ rq[r].pc = "roundtrip"
    /\ Sendable(rq[r].outURL)
    /\ rq' = [rq EXCEPT ![r].pc = "body", ![r].resp = Append(@, status)]
    /\ UNCHANGED <<mainImpl, mainPc, listener, bootVars, tcpVars, httpImpl, requests,
                   proxyError>>

\* The body has been copied: proxy.ServeHTTP returns and fwdHttp returns
\* proxyError.
ResponseCopied(r) ==
    /\ mainPc = "serve"
    /\ rq[r].pc = "body"
    /\ rq' = [rq EXCEPT ![r].pc = "returned",
                        ![r].ret = FwdHttpReturn(proxyError[ErrSlot(r)])]
    /\ UNCHANGED <<mainImpl, mainPc, listener, bootVars, tcpVars, httpImpl, requests,
                   proxyError>>

\* Copying the body fails (the upstream connection breaks or times out
\* after the status was relayed): the reverse proxy panics with
\* http.ErrAbortHandler, and neither proxy.ServeHTTP nor fwdHttp returns.
ResponseCopyFails(r) ==
    /\ mainPc = "serve"
    /\ rq[r].pc = "body"
    /\ rq' = [rq EXCEPT ![r].pc = "aborted"]
    /\ UNCHANGED <<mainImpl, mainPc, listener, bootVars, tcpVars, httpImpl, requests,
                   proxyError>>

\* The response is still being written when the server's WriteTimeout,
\* counted from the end of the request's header, has passed: the write
\* deadline of the connection makes the next write to the caller fail, the
\* copy of the body fails with it, and the response is cut.  A server
\* without WriteTimeout sets no write deadline.  (IdleTimeout bounds the
\* wait for the next request of a kept-alive connection, not a response.)
WriteTimeoutExpires(r) ==
    /\ mainPc = "serve"
    /\ rq[r].pc = "body"
    /\ server.WriteTimeout # NoTimeout
    /\ rq' = [rq EXCEPT ![r].pc = "cut"]
    /\ UNCHANGED <<mainImpl, mainPc, listener, bootVars, tcpVars, httpImpl, requests,
                   proxyError>>

\* The next request to arrive.
Arriving(r) == r <= requests /\ rq[r].pc = "none"

HttpNext ==
    \/ \E r \in Reqs : Arriving(r) /\ \E in \in Inbound : ServeHTTP(r, in)
    \/ \E r \in Reqs : RoundTripFails(r)
    \/ \E r \in Reqs, status \in Statuses : RoundTripOK(r, status)
    \/ \E r \in Reqs : ResponseCopied(r)
    \/ \E r \in Reqs : ResponseCopyFails(r)
    \/ \E r \in Reqs : WriteTimeoutExpires(r)
    \/ ServeReturns

HttpSpec == HttpInit /\ [][HttpNext]_vars

\* The process from its start: main() up to its strategy, and then the
\* HTTP server with the request that arrives.
BootNext ==
    \/ LoadConfigStep
    \/ Listen
    \/ StartFails
    \/ Dispatch
    \/ HttpNext

BootSpec == BootInit /\ [][BootNext]_vars

\* ----------------------------------------------- the strategies together
\* The process forwards: as a TCP tunnel or as an HTTP server, whichever
\* strategy main() runs.
ForwardInit == Init \/ HttpInit

Forward ==
    \/ ran = <<"AcceptLoop">> /\ Next
    \/ ran # <<"AcceptLoop">> /\ HttpNext

ForwardSpec == ForwardInit /\ [][Forward]_vars

\* ------------------------------------------------------------- the claims
Returned(c) == sess[c] = "returned"
\* The connection that has waited longest for Accept().
FirstQueued(c) == sess[c] = "queued" /\ \A b \in Conns : b < c => sess[b] # "queued"
DialFailed(c) == ret[c].kind = "dial"
NilResult == [kind |-> "nil", cause |-> "nil"]

\* C1: when fwdTCP has returned, on whatever path, the local connection is
\* closed, and so is the outbound connection if the dial succeeded: no
\* connection of a finished session is open.
C1_ClosedOnEveryExit ==
    \A c \in Conns :
        Returned(c) =>
            /\ conn[c]["lstConn"].state = "closed"
            /\ conn[c]["tsConn"].state # "open"
            /\ ~DialFailed(c) => conn[c]["tsConn"].state = "closed"

\* One session ended on a failed dial and another after a copy error.
C1_Witness ==
    \E a, b \in Conns :
        /\ Returned(a) /\ DialFailed(a)
        /\ Returned(b) /\ ~DialFailed(b) /\ gerr[b] # "nil"

\* C2: after a successful dial fwdTCP returns only once both copy tasks are
\* done; its result is the first non-nil error of the copy tasks, and nil
\* only if both ended cleanly.
C2_ReturnsFirstError ==
    \A c \in Conns :
        (Returned(c) /\ ~DialFailed(c)) =>
            /\ \A d \in Dirs : task[c][d].pc = "done"
            /\ gerr[c] # "nil" => ret[c] = [kind |-> "conn", cause |-> gerr[c]]
            /\ ret[c] = NilResult => \A d \in Dirs : task[c][d].err = "nil"

\* ------------------------------------------------------------------------
\* The target has seen the end of the client's stream: the forwarder shut
\* down the write side of tsConn or closed it (or the target is gone).
OutboundSawEOF(c) ==
    \/ conn[c]["tsConn"].wclosed
    \/ conn[c]["tsConn"].state = "closed"
    \/ conn[c]["tsConn"].rst

\* The local->remote copy has read EOF from the client.
LocalEOFRead(c) ==
    task[c]["l2r"].pc = "done" /\ task[c]["l2r"].err # "copy"

\* C3: once the local->remote copy has read EOF, the outbound peer
\* eventually observes EOF, whatever the remote->local direction does.
C3_HalfClosePropagates ==
    \A c \in Conns : LocalEOFRead(c) ~> OutboundSawEOF(c)

\* Nothing went wrong in session c: no reset, no deadline reached.
NoFault(c) ==
    /\ \A s \in Sides : ~conn[c][s].rst
    /\ ~timedOut[c]

\* C4: in each direction of a session whose dial succeeded, the bytes
\* delivered are always a prefix of the bytes sent, and when the source ended
\* its stream cleanly and the session is over, all of them have been
\* delivered.
C4_ByteFidelity ==
    \A c \in Conns : \A d \in Dirs :
        /\ IsPrefix(wire[c][d].recv, wire[c][d].sent)
        /\ (Returned(c) /\ ~DialFailed(c) /\ NoFault(c) /\ wire[c][d].fin)
               => wire[c][d].recv = wire[c][d].sent

\* C5: if one copy task fails with a non-EOF error, the sibling completes
\* too and fwdTCP returns.
C5_SiblingUnblocked ==
    \A c \in Conns :
        (\E d \in Dirs : task[c][d].err = "copy") ~> Returned(c)

\* C6: a session is over once the deadline armed on the accepted connection
\* has been reached, whatever the peers do or do not do.
C6_DeadlineEndsSession ==
    \A c \in Conns : timedOut[c] ~> Returned(c)

\* C7: a failed dial closes the local connection, returns the dial error,
\* starts no copy task and opens no outbound connection, and Dial was called
\* once.
C7_DialFailure ==
    \A c \in Conns :
        DialFailed(c) =>
            /\ Returned(c)
            /\ conn[c]["lstConn"].state = "closed"
            /\ conn[c]["tsConn"].state = "none"
            /\ \A d \in Dirs : task[c][d].pc = "idle"
            /\ dials[c] = 1

C7_Witness == \E c \in Conns : Returned(c) /\ DialFailed(c)

\* C8: while the listener is open, failed Accept() calls leave the loop at
\* Accept(): a connection waiting after them can be accepted.
C8_AcceptErrorsNotFatal ==
    (acceptErrs > 0 /\ listener = "open") =>
        /\ mainPc = "accept"
        /\ \A c \in Conns : FirstQueued(c) => ENABLED AcceptOK(c)

\* A connection was accepted after two failed Accept() calls.
C8_Witness == \E c \in Conns : Running(c) /\ failedBefore[c] >= 2

\* C9: once Accept() has failed because the listener is closed, the accept
\* loop is over.
C9_ClosedListenerEndsLoop == listener = "closed" => mainPc = "exited"

\* C10: the accept loop never waits for a forwarder: whatever the sessions
\* accepted earlier are doing, a waiting connection can be accepted.
C10_AcceptNeverWaits ==
    \A c \in Conns :
        (FirstQueued(c) /\ listener = "open" /\ \E b \in Conns : Running(b))
            => ENABLED AcceptOK(c)

\* A connection was accepted, and is being forwarded, while a session
\* accepted before it is still blocked in its dial or in its copy.
C10_Witness ==
    \E a, b \in Conns :
        /\ a < b
        /\ sess[a] \in {"dial", "copy"}
        /\ sess[b] \in {"dial", "copy"}

\* The bytes the source of direction d of session c has sent so far.
OwnBytes(c, d) == {Byte(c, d, i) : i \in 1..Len(wire[c][d].sent)}

\* C11: sessions never mix their data: every byte delivered to the outbound
\* peer of a session was sent by that session's local client, and every byte
\* delivered to its local client was sent by that session's outbound peer;
\* the same holds for the bytes a copy goroutine holds between its read and
\* its write.
C11_SessionIsolation ==
    \A c \in Conns, d \in Dirs :
        /\ \A k \in 1..Len(wire[c][d].recv) : wire[c][d].recv[k] \in OwnBytes(c, d)
        /\ \A k \in 1..Len(task[c][d].buf) : task[c][d].buf[k] \in OwnBytes(c, d)

\* Two sessions are in their copy phase at once and one of them has
\* delivered data.
C11_Witness ==
    \E a, b \in Conns, d \in Dirs :
        /\ a # b
        /\ sess[a] = "copy" /\ sess[b] = "copy"
        /\ wire[a][d].recv # <<>>

\* C12: an error in one session or request stays there.  A TCP session's
\* connections are closed and its context cancelled only by its own return
\* or its own copy error, and what fwdTCP returns names an error of one of
\* its own copy tasks or its own failed dial.  What fwdHttp returns for a
\* request, and what its proxyError holds, is nil or an error of that same
\* request, and a request that got a response from upstream returns nil.
C12_ErrorsStayInSession ==
    /\ \A c \in Conns :
         /\ \A s \in Sides : conn[c][s].state = "closed" => Returned(c)
         /\ ctxDone[c] => (Returned(c) \/ \E d \in Dirs : task[c][d].err = "copy")
         /\ ret[c].kind = "conn" =>
               \E d \in Dirs : /\ task[c][d].err # "nil"
                                /\ ret[c].cause = ErrName(d, task[c][d].err)
         /\ ret[c].kind = "dial" => conn[c]["tsConn"].state = "none"
    /\ \A r \in Reqs :
         /\ rq[r].ret.kind \in {"parse", "transport"} => rq[r].ret.req = r
         /\ (rq[r].pc = "returned" /\ rq[r].errWrites = 0) => rq[r].ret = NilErr
         /\ (rq[r].pc \in {"roundtrip", "body"} /\ rq[r].errWrites = 0)
               => proxyError[r] = NilErr

\* One HTTP request has ended in a transport error and a 502 while another,
\* in flight at the same time, got its upstream's answer and returned.
C12_Witness ==
    \E a, b \in Reqs :
        /\ a # b
        /\ rq[a].pc = "returned" /\ rq[a].ret.kind = "transport"
        /\ rq[b].pc = "returned" /\ rq[b].resp \in {<<200>>, <<404>>}

\* Settings that are in order apart from the target and the proxy flag.
WellFormed(e) ==
    /\ e.TS_AUTHKEY /\ ~e.readFails /\ ~ListenPortInvalid(e.LISTEN_PORT)
    /\ PlainEnv(e)

\* The mode the resolution rule gives for the settings e; "" where the rule
\* says nothing.
RuleMode(e) ==
    IF e.TARGET_ADDR = <<>>
    THEN (IF e.PROXY_MODE = <<"t">> /\ cfgImpl # "internal/config"
          THEN ForwardTrafficTypeTailnetProxy ELSE "")
    ELSE IF e.PROXY_MODE # <<>> THEN ""
    ELSE IF HasPrefix(e.TARGET_ADDR, HTTP \o SchemeSep) THEN ForwardTrafficTypeHTTP
    ELSE IF HasPrefix(e.TARGET_ADDR, HTTPS \o SchemeSep) THEN ForwardTrafficTypeHTTPS
    ELSE IF Index(e.TARGET_ADDR, SchemeSep) = 0 THEN ForwardTrafficTypeTCP
    ELSE ""

\* C13: mode resolution.  Once LoadConfig has run on settings that are
\* otherwise in order: a target without a scheme gives TCP mode, a target
\* that starts with http:// gives HTTP mode, one that starts with https://
\* gives HTTPS mode, and no target with the proxy flag enabled (in a build
\* that has the flag) gives tailnet-proxy mode.
C13_ModeResolution ==
    (mainPc # "load" /\ WellFormed(env) /\ RuleMode(env) # "")
        => cfg.ForwardTrafficType = RuleMode(env)

Modes ==
    {ForwardTrafficTypeTCP, ForwardTrafficTypeHTTP, ForwardTrafficTypeHTTPS,
     ForwardTrafficTypeTailnetProxy}

\* The strategy the spec gives each mode.
ModeStrategy(type) ==
    CASE type = ForwardTrafficTypeTCP -> "AcceptLoop"
      [] type \in {ForwardTrafficTypeHTTP, ForwardTrafficTypeHTTPS} -> "HTTPServer"
      [] type = ForwardTrafficTypeTailnetProxy -> "TailnetProxyServer"
      [] OTHER -> "none"

Loaded == mainPc # "load" /\ ~cfg.panic /\ cfg.errs = {}

\* C14: once the configuration has loaded without errors the mode is one of
\* the four, the configuration (mode included) never changes afterwards,
\* and main() runs at most one strategy, the one of the mode, and exactly
\* that one once it has dispatched.
C14_OneModeOneStrategy ==
    /\ [](Loaded => /\ cfg.ForwardTrafficType \in Modes
                    /\ Len(ran) <= 1
                    /\ (mainPc \in {"accept", "serve"} =>
                           ran = <<ModeStrategy(cfg.ForwardTrafficType)>>)
                    /\ (ran # <<>> => ran = <<ModeStrategy(cfg.ForwardTrafficType)>>))
    /\ [][Loaded => (cfg' = cfg /\ (ran # <<>> => ran' = ran))]_vars

\* main() serves the tailnet proxy handler.
C14_Witness ==
    /\ Loaded
    /\ mainPc = "serve"
    /\ cfg.ForwardTrafficType = ForwardTrafficTypeTailnetProxy
    /\ ran = <<"TailnetProxyServer">>

\* fwdHttp was called for request r and its Director has run to its end.
Handled(r) == rq[r].pc \in {"roundtrip", "body", "returned", "aborted", "cut"}

\* The scheme and the host of a target base "scheme://host".
SchemeOf(t) == ToLower(SplitN(t)[1])
HostOf(t) == SplitN(t)[2]

\* C15: the fixed-target rewrite.  For a request fwdHttp has rewritten, the
\* outbound URL is the target base followed by the inbound path and query,
\* and the outbound Host is the host of the target base.  (A rewritten URL
\* that does not parse is the case of C18.)
C15_FixedTargetRewrite ==
    \A r \in Reqs :
        (Handled(r) /\ ~rq[r].parsedError) =>
            /\ rq[r].outURL.Scheme = SchemeOf(rq[r].targetAddr)
            /\ rq[r].outURL.Host = HostOf(rq[r].targetAddr)
            /\ rq[r].outURL.Path = rq[r].URL.Path
            /\ rq[r].outURL.RawQuery = rq[r].URL.RawQuery
            /\ rq[r].outHost = HostOf(rq[r].targetAddr)

\* C16: after the rewrite step the outbound request carries none of the
\* nine hop-by-hop headers, whichever of them the inbound request carried.
C16_HopByHopStripped ==
    \A r \in Reqs :
        (Handled(r) /\ ~rq[r].parsedError) => rq[r].outHeader \cap HopByHop = {}

\* The outbound exchange of request r has failed: the round trip returned
\* an error, or the upstream's response broke off.
ExchangeFailed(r) ==
    \/ rq[r].pc = "aborted"
    \/ rq[r].pc = "returned" /\ rq[r].resp # <<>> /\ rq[r].resp[Len(rq[r].resp)] = 502

\* The outbound exchange of request r has succeeded.
ExchangeSucceeded(r) ==
    rq[r].pc = "returned" /\ rq[r].resp # <<>> /\ rq[r].resp[1] \in Statuses

\* C17: when the outbound exchange fails the caller gets 502 and fwdHttp
\* returns the transport error; when it succeeds the upstream's status is
\* what the caller gets and fwdHttp returns nil.
C17_ExchangeOutcome ==
    \A r \in Reqs :
        /\ ExchangeFailed(r) =>
              /\ rq[r].resp = <<502>>
              /\ rq[r].ret = [kind |-> "transport", req |-> r]
        /\ ExchangeSucceeded(r) =>
              /\ Len(rq[r].resp) = 1
              /\ rq[r].ret = NilErr

\* The rewritten target URL of request r does not parse.
ParseFails(r) ==
    /\ rq[r].pc \notin {"none", "rejected"}
    /\ Parse(rq[r].targetAddr \o RequestURI(rq[r].URL)).err

\* C18: when the rewritten target URL does not parse, fwdHttp goes on to
\* its return, the caller has got 502 by then, and the error returned is
\* the parse error.
C18_ParseErrorSurfaced ==
    \A r \in Reqs :
        ParseFails(r) =>
            /\ rq[r].pc # "panicked"
            /\ rq[r].pc = "returned" =>
                  /\ rq[r].resp = <<502>>
                  /\ rq[r].ret = [kind |-> "parse", req |-> r]

\* C19: a request gets at most one response, and its proxyError is written
\* with an error at most once: by the Director or by the ErrorHandler,
\* never by both.
C19_OneResponseOneError ==
    \A r \in Reqs :
        /\ Len(rq[r].resp) <= 1
        /\ rq[r].errWrites <= 1

\* C20: the tailnet proxy hands fwdHttp the target "https://" + Host for a
\* request that carries TLS state and "http://" + Host otherwise, and a
\* fixed-target server is not involved.
C20_HostHeaderRouting ==
    \A r \in Reqs :
        (ran = <<"TailnetProxyServer">> /\ rq[r].pc \notin {"none", "rejected"}) =>
            /\ rq[r].Host # <<>>
            /\ rq[r].targetAddr =
                  (IF rq[r].TLS THEN <<"h", "t", "t", "p", "s">> ELSE <<"h", "t", "t", "p">>)
                  \o <<":", "/", "/">> \o rq[r].Host

\* The tailnet proxy has handed fwdHttp the target https://a for a request
\* with Host a that carries TLS state, and http://a for one that does not.
C20_Witness ==
    /\ ran = <<"TailnetProxyServer">>
    /\ \E r \in Reqs :
          /\ rq[r].pc = "roundtrip"
          /\ rq[r].Host = <<"a">>
          /\ rq[r].TLS
          /\ rq[r].targetAddr = <<"h", "t", "t", "p", "s", ":", "/", "/", "a">>

\* C21: in tailnet-proxy mode a request without Host is answered 400, and
\* nothing else: fwdHttp is not called for it (no target, no rewrite, no
\* error recorded) and no round trip is or can be started; a request with a
\* Host is never answered 400 by the proxy.
C21_MissingHostRejected ==
    \A r \in Reqs :
        (ran = <<"TailnetProxyServer">> /\ rq[r].pc # "none") =>
            /\ rq[r].Host = <<>> =>
                  /\ rq[r].pc = "rejected"
                  /\ rq[r].resp = <<400>>
                  /\ rq[r].targetAddr = <<>>
                  /\ rq[r].outURL = NilURL
                  /\ rq[r].errWrites = 0
                  /\ rq[r].ret = NoRet
                  /\ ~ENABLED RoundTripFails(r)
                  /\ \A status \in Statuses : ~ENABLED RoundTripOK(r, status)
            /\ rq[r].Host # <<>> =>
                  /\ rq[r].pc # "rejected"
                  /\ \A k \in 1..Len(rq[r].resp) : rq[r].resp[k] # 400

\* The tailnet proxy has answered 400 to a request without Host.
C21_Witness ==
    /\ ran = <<"TailnetProxyServer">>
    /\ \E r \in Reqs : rq[r].Host = <<>> /\ rq[r].pc = "rejected" /\ rq[r].resp = <<400>>

\* main() has started its strategy (or has ended).
Started == mainPc \in {"accept", "serve", "exited"}

\* C22: the outbound transport's TLS policy and dialer are written while
\* main() sets up, before it serves or accepts; from then on no step of the
\* program writes the transport, whatever requests are being forwarded.
C22_TransportSetOnce ==
    /\ [](mainPc \in {"load", "start", "dispatch"} => transport = NoTransport)
    /\ [][Started => transport' = transport]_vars

\* A request is being forwarded over a transport that main() has set up.
C22_Witness ==
    /\ mainPc = "serve"
    /\ transport.writes > 0
    /\ \E r \in Reqs : rq[r].pc = "body"

\* C23: when INSECURE_SKIP_VERIFY is set, every HTTPS relay goes over a
\* transport that skips certificate verification exactly when it is set to
\* true; with INSECURE_SKIP_VERIFY=false the certificate is verified, under
\* a fixed target and under the tailnet proxy alike.
C23_TLSPolicyFollowsSetting ==
    \A r \in Reqs :
        (rq[r].pc \in {"roundtrip", "body"} /\ ~rq[r].parsedError
            /\ rq[r].outURL.Scheme = HTTPS /\ env.INSECURE_SKIP_VERIFY # <<>>) =>
            transport.tls = IF env.INSECURE_SKIP_VERIFY = <<"t">> THEN "skip" ELSE "verify"

\* In the current state main() can accept a connection or a request, or a
\* request or a session in flight can take a step.
Forwards ==
    \/ \E r \in Reqs : \E in \in Inbound : ENABLED ServeHTTP(r, in)
    \/ \E r \in Reqs : ENABLED RoundTripFails(r)
    \/ \E r \in Reqs, status \in Statuses : ENABLED RoundTripOK(r, status)
    \/ \E r \in Reqs : ENABLED ResponseCopied(r)
    \/ \E c \in Conns : ENABLED AcceptOK(c)
    \/ \E c \in Conns : ENABLED GoFunc(c)

\* C24: a configuration with errors, a failed start of the overlay client,
\* a failed bind and an error returned by Serve each end the process: after
\* LoadConfig has reported errors main() is at its exit, a step that leaves
\* the start-up without an open listener or that leaves Serve is the exit,
\* and once the process has exited it takes no further step and nothing is
\* accepted or forwarded; after a failure before the strategy, nothing ever
\* was.
C24_FailuresAreFatal ==
    /\ []((mainPc # "load" /\ (cfg.panic \/ cfg.errs # {})) => mainPc = "exited")
    /\ [](mainPc = "exited" =>
            /\ ~Forwards
            /\ ran = <<>> => /\ \A r \in Reqs : rq[r].pc = "none"
                             /\ \A c \in Conns : sess[c] = "none")
    /\ [][/\ (mainPc = "start" /\ mainPc' # "start")
                => (mainPc' = "exited" \/ (mainPc' = "dispatch" /\ listener' = "open"))
          /\ (mainPc = "serve" /\ mainPc' # "serve") => mainPc' = "exited"
          /\ mainPc = "exited" => UNCHANGED vars]_vars

\* Serve has returned while a request was being forwarded, and the process
\* has exited.
C24_Witness ==
    /\ mainPc = "exited"
    /\ ran # <<>>
    /\ \E r \in Reqs : rq[r].pc = "body"

\* C25: an HTTP server of the program bounds the reading of the request
\* header and sets no timeout that cuts a response in progress: no response
\* is cut by the server, and none that is streaming can be.
C25_StreamingNotCut ==
    /\ server.ReadHeaderTimeout # NoTimeout
    /\ \A r \in Reqs :
          /\ rq[r].pc # "cut"
          /\ rq[r].pc = "body" => ~ENABLED WriteTimeoutExpires(r)

\* C26: flags take precedence.  Once LoadConfig has run, a field whose flag
\* and environment variable were both supplied holds the flag's value, and
\* the environment's value is used only when the flag was not given: for
\* the target address, and for the proxy mode in the builds that have it.
C26_FlagOverridesEnv ==
    mainPc # "load" =>
        /\ (env.FLAG_TARGET_ADDR # <<>> /\ env.TARGET_ADDR # <<>> /\ ~cfg.panic)
              => cfg.TargetAddr = env.FLAG_TARGET_ADDR[1]
        /\ (env.FLAG_TARGET_ADDR = <<>> /\ ~cfg.panic)
              => cfg.TargetAddr = env.TARGET_ADDR
        /\ (env.FLAG_PROXY_MODE # <<>> /\ env.PROXY_MODE # <<>> /\ cfgImpl # "internal/config")
              => /\ ~cfg.panic
                 /\ cfg.ProxyMode = (env.FLAG_PROXY_MODE[1] = <<"t">>)

\* C27: the removal of the hop-by-hop headers is idempotent: applied to the
\* headers of a rewritten request, which the Director has already applied
\* it to, it gives those same headers, whatever headers the request had.
C27_StripIdempotent ==
    \A r \in Reqs :
        (Handled(r) /\ ~rq[r].parsedError) =>
            /\ rq[r].outHeader = StripHopHeaders(rq[r].Header)
            /\ StripHopHeaders(rq[r].outHeader) = rq[r].outHeader

\* The Director has removed several hop-by-hop headers from a request.
C27_Witness ==
    \E r \in Reqs :
        /\ Handled(r) /\ ~rq[r].parsedError
        /\ Cardinality(rq[r].Header \ rq[r].outHeader) >= 2

\* The local->remote copy of session c ended on the client's EOF and shut
\* down the write side of the outbound connection.
LocalHalfClosed(c) ==
    /\ task[c]["l2r"].pc = "done"
    /\ task[c]["l2r"].err = "nil"
    /\ conn[c]["tsConn"].wclosed

\* C28: after the local->remote copy ended on a clean EOF and half-closed
\* the outbound connection, and while no reset and no session deadline has
\* struck, the remote->local copy has not failed and cannot fail, and the
\* bytes the target sent that wait on the outbound connection can be read.
C28_ReverseKeepsDraining ==
    \A c \in Conns :
        (sess[c] = "copy" /\ LocalHalfClosed(c) /\ NoFault(c)) =>
            /\ task[c]["r2l"].err # "copy"
            /\ ~ENABLED CopyReadErr(c, "r2l")
            /\ ~ENABLED CopyWriteErr(c, "r2l")
            /\ (task[c]["r2l"].pc = "read" /\ wire[c]["r2l"].inflight # <<>>)
                  => ENABLED CopyRead(c, "r2l", 1)

\* The copy task of direction d has called CloseWrite on its destination:
\* the call shut the write side down, or it failed and its error is the
\* task's result.  Only that task ever shuts its destination down.
HalfCloseAttempted(c, d) ==
    \/ conn[c][DstOf(d)].wclosed
    \/ task[c][d].err = "closewrite"

\* C29: a copy task that has completed, on EOF or on an error, has attempted
\* the half-close of its destination, and no destination carries the
\* deadline nudge of a task, or is closed after the copy, without that
\* attempt having been made first.
C29_HalfCloseOnCompletion ==
    \A c \in Conns : \A d \in Dirs :
        /\ task[c][d].pc = "done" => HalfCloseAttempted(c, d)
        /\ (task[c][d].pc = "done" /\ conn[c][DstOf(d)].dl = "nudged")
               => HalfCloseAttempted(c, d)
        /\ (Returned(c) /\ ~DialFailed(c)) => HalfCloseAttempted(c, d)

\* C30: a copy task whose destination has no CloseWrite method skips the
\* half-close: the destination's write side stays as it is, the task's
\* result is never the error of a half-close, and it is nil when the copy
\* ended on EOF; the error fwdTCP's errgroup records, and the one fwdTCP
\* returns, is never that of a half-close on such a destination.
C30_UnsupportedHalfCloseSkipped ==
    \A c \in Conns : \A d \in Dirs :
        DstOf(d) \notin canCloseWrite =>
            /\ ~conn[c][DstOf(d)].wclosed
            /\ task[c][d].err # "closewrite"
            /\ (task[c][d].pc = "done" /\ task[c][d].err # "copy")
                   => task[c][d].err = "nil"
            /\ gerr[c] # ErrName(d, "closewrite")
            /\ ret[c].cause # ErrName(d, "closewrite")

\* A session of part_000 over connections without CloseWrite has returned
\* nil after both of its copies ended on EOF.
C30_Witness ==
    \E c \in Conns :
        /\ tcpImpl = "part_000"
        /\ canCloseWrite = {}
        /\ Returned(c)
        /\ ret[c] = NilResult
        /\ \A d \in Dirs : task[c][d].pc = "done" /\ task[c][d].err = "nil"

\* C31: a session that waits in its outbound dial does not depend on the dial
\* completing: the dial timeout can elapse, and then fwdTCP returns a dial
\* error with the local connection closed.
C31_DialBounded ==
    \A c \in Conns :
        /\ sess[c] = "dial" => ENABLED DialTimeout(c)
        /\ DialFailed(c) => Returned(c) /\ conn[c]["lstConn"].state = "closed"

\* C32: an accepted connection carries its deadline from before fwdTCP
\* starts: in a session that has reached the dial, the copy or the return,
\* a deadline has been set on the local connection, and while a session is
\* not yet in fwdTCP nothing was dialled and no byte was copied.
C32_DeadlineBeforeForwarding ==
    \A c \in Conns :
        /\ sess[c] \in {"dial", "copy", "returned"}
               => conn[c]["lstConn"].dl # "none"
        /\ sess[c] \in {"none", "queued", "spawned"}
               => /\ dials[c] = 0
                  /\ \A d \in Dirs : wire[c][d].recv = <<>>

\* C33: a session dials once, and its outbound connection is its own: the
\* connection is open only while the session copies, what has arrived over
\* it was sent by the session's own client, and what a copy goroutine of
\* the session holds was read from the session's own streams.
C33_OneOutboundPerSession ==
    \A c \in Conns :
        /\ dials[c] <= 1
        /\ sess[c] \in {"dial", "copy", "returned"} => dials[c] = 1
        /\ conn[c]["tsConn"].state = "open" => sess[c] = "copy"
        /\ wire[c]["l2r"].recv # <<>> => sess[c] \in {"copy", "returned"}
        /\ IsPrefix(wire[c]["l2r"].recv, wire[c]["l2r"].sent)
        /\ \A d \in Dirs :
              \A i \in 1..Len(task[c][d].buf) :
                  task[c][d].buf[i] \in {Byte(c, d, j) : j \in 1..MaxEvents + 1}

\* A session copies over its own outbound connection, a byte of its client
\* delivered, after an earlier session has ended and closed its own.
C33_Witness ==
    \E a, b \in Conns :
        /\ a < b
        /\ Returned(a) /\ ~DialFailed(a) /\ dials[a] = 1
        /\ conn[a]["tsConn"].state = "closed"
        /\ sess[b] = "copy" /\ dials[b] = 1
        /\ conn[b]["tsConn"].state = "open"
        /\ wire[b]["l2r"].recv # <<>>

\* C34: the rewritten request differs from the inbound one in its URL, its
\* Host and the hop-by-hop headers it has lost, and in nothing else: every
\* other header, the method and the body are those of the inbound request.
C34_RewriteFrame ==
    \A r \in Reqs :
        (Handled(r) /\ ~rq[r].parsedError) =>
            /\ rq[r].outMethod = rq[r].Method
            /\ rq[r].outBody = rq[r].Body
            /\ rq[r].outHeader \subseteq rq[r].Header
            /\ rq[r].Header \ rq[r].outHeader \subseteq HopByHop
            /\ rq[r].Header \ HopByHop \subseteq rq[r].outHeader

\* A POST request with a body and with hop-by-hop headers was rewritten:
\* its URL changed, the hop-by-hop headers went and the Accept header stayed.
C34_Witness ==
    \E r \in Reqs :
        /\ Handled(r) /\ ~rq[r].parsedError
        /\ rq[r].Method = "POST" /\ rq[r].outBody = <<"b">>
        /\ rq[r].outURL # rq[r].URL
        /\ rq[r].Header \ rq[r].outHeader # {}
        /\ "Accept" \in rq[r].outHeader

\* Proxy mode is not enabled by the settings, and they name no target.
NoModeGiven(e) == ProxyModeSetting(e) # <<"t">> /\ TargetAddrSetting(e) = <<>>

\* C35: once LoadConfig has been called: with proxy mode disabled and no
\* target address it has returned errors and no configuration; it has
\* returned a configuration exactly when it returned no error; and a
\* configuration it returned has a forwarding mode.
C35_ValidatedOrNone ==
    mainPc # "load" =>
        /\ NoModeGiven(env) => ~cfg.panic /\ cfg.errs # {} /\ cfg.isNil
        /\ ~cfg.panic => (cfg.isNil <=> cfg.errs # {})
        /\ (~cfg.panic /\ ~cfg.isNil) => cfg.ForwardTrafficType # ""

\* Proxy mode is enabled, in a build whose configuration has the setting,
\* and the other settings are in order, whatever the target address.
ProxyModeEnabled(e) ==
    /\ cfgImpl # "internal/config"
    /\ ProxyModeSetting(e) = <<"t">>
    /\ e.TS_AUTHKEY /\ ~e.readFails /\ ~ListenPortInvalid(ListenPortSetting(e))

\* C36: with proxy mode enabled, whatever the target address is: the
\* configuration loads without an error about the target, the mode is
\* tailnet-proxy, main() runs the tailnet proxy server and nothing else, and
\* every request that is forwarded goes to the target derived from its own
\* Host, not to the configured address.
C36_ProxyModeIgnoresTarget ==
    (mainPc # "load" /\ ProxyModeEnabled(env)) =>
        /\ ~cfg.panic
        /\ cfg.errs = {}
        /\ cfg.ForwardTrafficType = ForwardTrafficTypeTailnetProxy
        /\ ran \in {<<>>, <<"TailnetProxyServer">>}
        /\ \A r \in Reqs :
              Handled(r) => rq[r].targetAddr = TailnetTarget(rq[r])

C38_NoRoundTripAfterParseError ==
    \A r \in Reqs :
        ParseFails(r) =>
            /\ rq[r].pc \notin {"roundtrip", "body"}
            /\ \A i \in 1..Len(rq[r].resp) : rq[r].resp[i] \notin Statuses
            /\ rq[r].ret.kind # "transport"

\* C39: behind the listener main() opens, no request carries TLS state, and
\* every target the tailnet proxy derives has the scheme http://: the
\* https:// derivation is not taken.
C39_PlainListenerNoHTTPS ==
    /\ listener \in {"none", "open", "closed"}
    /\ \A r \in Reqs :
          /\ ~rq[r].TLS
          /\ (ran = <<"TailnetProxyServer">> /\ rq[r].pc \notin {"none", "rejected"}) =>
                /\ rq[r].targetAddr = HTTP \o SchemeSep \o rq[r].Host
                /\ ~HasPrefix(rq[r].targetAddr, HTTPS)
                /\ ~rq[r].parsedError => rq[r].outURL.Scheme = HTTP

\* main() has dispatched to the tailnet proxy server, and a request was
\* forwarded to the http:// target derived from its Host.
C39_Witness ==
    \E r \in Reqs :
        /\ ran = <<"TailnetProxyServer">>
        /\ Handled(r) /\ ~rq[r].parsedError
        /\ rq[r].outURL.Scheme = HTTP
        /\ rq[r].outURL.Host = rq[r].Host

====
